---- MODULE Spec2Model ----
(***************************************************************************)
(* Model of the single-hop SSH port-forwarding tunnel of                   *)
(* disenroll-inverter (src/src/sshTunnel.go) together with the way         *)
(* src/main.go drives it.                                                  *)
(*                                                                         *)
(* One tunnel descriptor (SSHTunnel) exists.  The goroutines of the        *)
(* program are modelled by program counters:                               *)
(*   spc[s]     the s-th invocation of SSHTunnel.Start                     *)
(*   watcher[s] the cancellation watcher that invocation spawns            *)
(*   wpc[w]     the w-th caller of SSHTunnel.WaitReady                     *)
(*   fpc[f]     the forward goroutine of the f-th local connection         *)
(*   cp[f]      the remote->local copy goroutine that forward spawns       *)
(* The environment (the OS, local clients, the jump host, the remote       *)
(* destination, whoever cancels a context) is modelled by actions of its   *)
(* own.  log.Fatalf and an unrecovered panic end the whole process: after  *)
(* either, no goroutine takes another step.  A caller that gets an error   *)
(* back from Start or WaitReady may end the process too, as main.go does.  *)
(*                                                                         *)
(* NewEndpoint, Endpoint.String and NewSSHTunnel are operators on strings  *)
(* taken as sequences of characters (SpecParse applies them to every       *)
(* bounded address string); dbops.StartWatchdog (src/unnamed/part_000) is  *)
(* the goroutine dpc with its ticker (SpecWatchdog).                       *)
(***************************************************************************)
EXTENDS Integers, Sequences, FiniteSets, TLC

\* ---------------------------------------------------------------- bounds
\* Local client connections the environment opens.
MaxConns == 2
\* Callers of WaitReady.
MaxWaiters == 1
\* Invocations of Start on the one descriptor (only SpecRestart uses more
\* than the first: main.go calls Start once).
MaxStarts == 2
\* Ports the OS can hand out for "localhost:0" are 1..MaxPort.
MaxPort == 2
\* Bytes each side of a relayed connection has to send.
PayloadLen == 1

ConnIds == 1..MaxConns
WaiterIds == 1..MaxWaiters
StartIds == 1..MaxStarts
Ports == 1..MaxPort

\* The contexts: StartCtx is the one handed to Start (main.go:35,63); a
\* WaitReady caller passes either that one (main.go:70) or one of its own.
StartCtx == "ctx"
OtherCtx == "wctx"
Ctxs == {StartCtx, OtherCtx}

VARIABLES
    proc,        \* "running" | "exited" (log.Fatalf) | "panicked"
    ctxDone,     \* the contexts whose Done channel is closed
    readyCh,     \* t.readyCh: "open" | "closed"
    localPort,   \* t.Local.Port
    portWrites,  \* history: number of assignments to t.Local.Port by Start
    doneAtReady, \* history: ctxDone at the moment readyCh was closed
    spc,         \* Start invocation -> position in Start
    sret,        \* Start invocation -> "none" | "nil" | "err"
    listener,    \* Start invocation -> [st: "none"|"open"|"closed", port]
    watcher,     \* Start invocation -> "none" | "waiting" | "done"
    wpc,         \* waiter -> "idle" | "parked" | "woken" | "returned"
    wctx,        \* waiter -> the context it passed
    wres,        \* waiter -> "none" | "nil" | "cancelled"
    wseen,       \* waiter -> the port it read after WaitReady (-1: not read)
    fpc,         \* connection -> position of its forward
    clis,        \* connection -> the Start invocation whose listener it hit
    localConn,       \* connection -> its local connection: "none" | "open" | "closed"
    sessOf,      \* connection -> id of the jump-host session it dialed (0: none)
    chanOf,      \* connection -> id of the remote channel it opened (0: none)
    serverConn,       \* session id -> "none" | "open" | "closed"
    remoteConn,       \* channel id -> "none" | "open" | "closed"
    cp,          \* connection -> spawned copy goroutine: "none"|"run"|"stop"
    cSent,       \* connection -> bytes the local client has written
    cClosed,     \* connection -> the local client closed its side
    inL,         \* connection -> bytes written by the client, unread by the tunnel
    rSent,       \* channel id -> bytes the remote destination has written
    rClosed,     \* channel id -> the remote destination closed its side
    inR,         \* channel id -> bytes written by the remote, unread by the tunnel
    rRecv,       \* channel id -> bytes delivered to the remote destination
    lRecv,       \* connection -> bytes delivered to the local client
    tunnelAddress, \* the jump-host address string given to NewSSHTunnel
    destination, \* the destination address string given to NewSSHTunnel
    tunnel,      \* <<>> before NewSSHTunnel returned, <<descriptor>> after
    endpoint,    \* <<>> or <<e>>: e the result of NewEndpoint(tunnelAddress)
    rendered,    \* <<>> or <<str>>: str the result of e.String()
    dpc,         \* StartWatchdog: "idle" | "select" | "ping" | "returned"
    tickPending, \* a tick sits in ticker.C (a channel with room for one)
    ticks,       \* history: ticks the ticker has fired
    pings,       \* history: calls of db.PingContext
    pingFails,   \* history: calls of db.PingContext that returned an error
    dogDefers    \* deferred cancel() calls of StartWatchdog not yet run

lifeVars == <<proc, ctxDone, readyCh, localPort, portWrites, doneAtReady,
              spc, sret, listener, watcher>>
waitVars == <<wpc, wctx, wres, wseen>>
fwdVars  == <<fpc, clis, localConn, sessOf, chanOf, serverConn, remoteConn, cp, cClosed, rClosed>>
dataVars == <<cSent, inL, rSent, inR, rRecv, lRecv>>
parseVars == <<tunnelAddress, destination, tunnel, endpoint, rendered>>
dogVars == <<dpc, tickPending, ticks, pings, pingFails, dogDefers>>
sideVars == <<parseVars, dogVars>>
vars == <<lifeVars, waitVars, fwdVars, dataVars, sideVars>>

\* ------------------------------------------------- endpoints (pure part)
\* A string is the sequence of its characters.
\* Longest jump-host address string tried.
MaxAddrLen == 4
\* Longest destination address string tried.
MaxDestLen == 2
\* Ticks the watchdog's ticker fires.
MaxTicks == 3
\* The characters address strings are made of.
Alphabet == {"h", "@", ":", "0", "2"}

\* Every string over Alphabet of at most n characters.
Strs(n) == UNION {[1..k -> Alphabet] : k \in 0..n}

\* strings.Split(s, sep) for a one-character separator: the pieces of s
\* between the occurrences of sep, one more than there are occurrences.
RECURSIVE Split(_, _)
Split(s, sep) ==
    IF \A i \in 1..Len(s) : s[i] # sep
    THEN <<s>>
    ELSE LET i == CHOOSE k \in 1..Len(s) :
                      s[k] = sep /\ \A j \in 1..(k - 1) : s[j] # sep
         IN  <<SubSeq(s, 1, i - 1)>> \o Split(SubSeq(s, i + 1, Len(s)), sep)

Digits == {"0", "1", "2", "3", "4", "5", "6", "7", "8", "9"}

DigitVal(c) ==
    CASE c = "0" -> 0 [] c = "1" -> 1 [] c = "2" -> 2 [] c = "3" -> 3
      [] c = "4" -> 4 [] c = "5" -> 5 [] c = "6" -> 6 [] c = "7" -> 7
      [] c = "8" -> 8 [] c = "9" -> 9

\* The number a sequence of decimal digits denotes.
RECURSIVE DecimalValue(_)
DecimalValue(d) ==
    IF d = <<>> THEN 0
    ELSE 10 * DecimalValue(SubSeq(d, 1, Len(d) - 1)) + DigitVal(d[Len(d)])

\* strconv.Atoi with its error dropped, as sshTunnel.go:42 uses it: an
\* optional sign followed by one or more decimal digits gives the number,
\* anything else gives 0.  (The strings tried are too short for the range
\* error, on which Atoi returns the largest int.)
Atoi(s) ==
    LET body == IF s # <<>> /\ s[1] \in {"+", "-"} THEN Tail(s) ELSE s
    IN  IF body = <<>> \/ \E i \in 1..Len(body) : body[i] \notin Digits
        THEN 0
        ELSE IF s[1] = "-" THEN 0 - DecimalValue(body) ELSE DecimalValue(body)

\* The %d verb of fmt.Sprintf: shortest decimal numeral, "-" when negative.
RECURSIVE FormatInt(_)
FormatInt(n) ==
    IF n < 0 THEN <<"-">> \o FormatInt(0 - n)
    ELSE IF n < 10 THEN <<CHOOSE c \in Digits : DigitVal(c) = n>>
    ELSE FormatInt(n \div 10) \o <<CHOOSE c \in Digits : DigitVal(c) = n % 10>>

\* NewEndpoint (sshTunnel.go:29-46).
NewEndpoint(s) ==
    LET byAt    == Split(s, "@")
        user    == IF Len(byAt) > 1 THEN byAt[1] ELSE <<>>
        host    == IF Len(byAt) > 1 THEN byAt[2] ELSE s
        byColon == Split(host, ":")
    IN  [Host |-> IF Len(byColon) > 1 THEN byColon[1] ELSE host,
         Port |-> IF Len(byColon) > 1 THEN Atoi(byColon[2]) ELSE 0,
         User |-> user]

\* Endpoint.String (sshTunnel.go:49-52): "%s:%d" of Host and Port.
String(e) == e.Host \o <<":">> \o FormatInt(e.Port)

\* The port NewSSHTunnel gives a jump host whose address names none.
DefaultSSHPort == 22

\* The local address NewSSHTunnel parses, "localhost:0".
LocalAddress == <<"l", "o", "c", "a", "l", "h", "o", "s", "t", ":", "0">>

\* A faulty constructor that takes the jump-host endpoint as parsed.
NewSSHTunnelNoDefault(addr, dest) ==
    [Local  |-> NewEndpoint(LocalAddress),
     Server |-> NewEndpoint(addr),
     Remote |-> NewEndpoint(dest),
     ConfigUser |-> NewEndpoint(addr).User]

\* NewSSHTunnel (sshTunnel.go:67-96): the endpoints of the descriptor and
\* the user name handed to the SSH client configuration.
NewSSHTunnel(addr, dest) ==
    LET server == NewEndpoint(addr)
    IN  [Local  |-> NewEndpoint(LocalAddress),
         Server |-> IF server.Port = 0
                    THEN [server EXCEPT !.Port = DefaultSSHPort]
                    ELSE server,
         Remote |-> NewEndpoint(dest),
         ConfigUser |-> server.User]

\* ------------------------------------------------------------------ Init
\* NewSSHTunnel (sshTunnel.go:67-96): localhost:0, a fresh open readyCh.
\* No goroutine has started; no connection exists.
InitTunnel ==
    /\ proc = "running"
    /\ ctxDone = {}
    /\ readyCh = "open"
    /\ localPort = 0
    /\ portWrites = 0
    /\ doneAtReady = {}
    /\ spc = [s \in StartIds |-> "idle"]
    /\ sret = [s \in StartIds |-> "none"]
    /\ listener = [s \in StartIds |-> [st |-> "none", port |-> 0]]
    /\ watcher = [s \in StartIds |-> "none"]
    /\ wpc = [w \in WaiterIds |-> "idle"]
    /\ wctx = [w \in WaiterIds |-> StartCtx]
    /\ wres = [w \in WaiterIds |-> "none"]
    /\ wseen = [w \in WaiterIds |-> -1]
    /\ fpc = [f \in ConnIds |-> "none"]
    /\ clis = [f \in ConnIds |-> 0]
    /\ localConn = [f \in ConnIds |-> "none"]
    /\ sessOf = [f \in ConnIds |-> 0]
    /\ chanOf = [f \in ConnIds |-> 0]
    /\ serverConn = [i \in ConnIds |-> "none"]
    /\ remoteConn = [i \in ConnIds |-> "none"]
    /\ cp = [f \in ConnIds |-> "none"]
    /\ cSent = [f \in ConnIds |-> 0]
    /\ cClosed = [f \in ConnIds |-> FALSE]
    /\ inL = [f \in ConnIds |-> <<>>]
    /\ rSent = [i \in ConnIds |-> 0]
    /\ rClosed = [i \in ConnIds |-> FALSE]
    /\ inR = [i \in ConnIds |-> <<>>]
    /\ rRecv = [i \in ConnIds |-> <<>>]
    /\ lRecv = [f \in ConnIds |-> <<>>]

\* StartWatchdog has not been called (main.go:97 calls it later).
InitWatchdog ==
    /\ dpc = "idle"
    /\ tickPending = FALSE
    /\ ticks = 0
    /\ pings = 0
    /\ pingFails = 0
    /\ dogDefers = 0

\* The tunnel as main.go builds it (main.go:54-58) from a jump-host address
\* without a port and a destination with one.
Init ==
    /\ InitTunnel
    /\ InitWatchdog
    /\ tunnelAddress = <<"h", "@", "h">>
    /\ destination = <<"h", ":", "2">>
    /\ tunnel = <<NewSSHTunnel(tunnelAddress, destination)>>
    /\ endpoint = <<>>
    /\ rendered = <<>>

\* --------------------------------------------------------------- helpers
\* Ports held by a listening socket that has not been closed.
BoundPorts == {listener[s].port : s \in {x \in StartIds : listener[x].st = "open"}}

\* The ports net.Listen("tcp", t.Local.String()) can bind: with port 0 the
\* OS picks any free one, otherwise exactly the named one if it is free.
ListenPorts(addrPort) ==
    IF addrPort = 0 THEN Ports \ BoundPorts ELSE {addrPort} \ BoundPorts

\* A faulty select that lacks the <-t.readyCh case.
SelectCtxOnly(c) == IF c \in ctxDone THEN {"cancelled"} ELSE {}

\* A select over <-t.readyCh and <-ctx.Done() (sshTunnel.go:142-147): the
\* results it can produce when it is evaluated in the current state.  The
\* empty set means the goroutine parks.  With both ready Go picks at random.
SelectReady(c) ==
    (IF readyCh = "closed" THEN {"nil"} ELSE {}) \cup
    (IF c \in ctxDone THEN {"cancelled"} ELSE {})

\* Closing a channel wakes every goroutine parked on it; the woken select
\* returns the case that woke it.  Waiters parked in WaitReady that the
\* closing of readyCh wakes:
WokenByReady(w) == wpc[w] = "parked"
\* ... and those that the closing of ctx c's Done channel wakes:
WokenByCancel(w, c) == wpc[w] = "parked" /\ wctx[w] = c

\* ------------------------------------------------------ SSHTunnel.Start
\* sshTunnel.go:103 net.Listen succeeds on port p.
StartListenOK(s, p) ==
    /\ proc = "running"
    /\ spc[s] = "idle"
    /\ p \in ListenPorts(localPort)
    /\ listener' = [listener EXCEPT ![s] = [st |-> "open", port |-> p]]
    /\ spc' = [spc EXCEPT ![s] = "watch"]
    /\ UNCHANGED <<sideVars, proc, ctxDone, readyCh, localPort, portWrites, doneAtReady,
                   sret, watcher, waitVars, fwdVars, dataVars>>

\* A faulty Start that signals readiness before it looks at the error of
\* net.Listen.
StartListenFailSignals(s) ==
    /\ proc = "running"
    /\ spc[s] = "idle"
    /\ spc' = [spc EXCEPT ![s] = "returned"]
    /\ sret' = [sret EXCEPT ![s] = "err"]
    /\ readyCh' = "closed"
    /\ UNCHANGED <<sideVars, proc, ctxDone, localPort, portWrites, doneAtReady,
                   listener, watcher, waitVars, fwdVars, dataVars>>

\* sshTunnel.go:103-106 net.Listen fails (port taken, no descriptors, ...):
\* Start returns the wrapped error at once.
StartListenFail(s) ==
    /\ proc = "running"
    /\ spc[s] = "idle"
    /\ spc' = [spc EXCEPT ![s] = "returned"]
    /\ sret' = [sret EXCEPT ![s] = "err"]
    /\ UNCHANGED <<sideVars, proc, ctxDone, readyCh, localPort, portWrites, doneAtReady,
                   listener, watcher, waitVars, fwdVars, dataVars>>

\* sshTunnel.go:109-112 go func(){ <-ctx.Done(); listener.Close() }()
StartSpawnWatcher(s) ==
    /\ proc = "running"
    /\ spc[s] = "watch"
    /\ watcher' = [watcher EXCEPT ![s] = "waiting"]
    /\ spc' = [spc EXCEPT ![s] = "setport"]
    /\ UNCHANGED <<sideVars, proc, ctxDone, readyCh, localPort, portWrites, doneAtReady,
                   sret, listener, waitVars, fwdVars, dataVars>>

\* A faulty Start that keeps the declared port instead of the bound one.
DeclaredPort(s) == localPort

\* sshTunnel.go:115 listener.Addr().(*net.TCPAddr).Port: the port that the
\* listening socket of invocation s holds.
AssignedPort(s) == listener[s].port

\* sshTunnel.go:115 t.Local.Port = listener.Addr().(*net.TCPAddr).Port
StartSetPort(s) ==
    /\ proc = "running"
    /\ spc[s] = "setport"
    /\ localPort' = AssignedPort(s)
    /\ portWrites' = portWrites + 1
    /\ spc' = [spc EXCEPT ![s] = "ready"]
    /\ UNCHANGED <<sideVars, proc, ctxDone, readyCh, doneAtReady, sret, listener, watcher,
                   waitVars, fwdVars, dataVars>>

\* sshTunnel.go:118 close(t.readyCh).  Closing a closed channel panics and
\* the panic, unrecovered, ends the process.
StartCloseReady(s) ==
    /\ proc = "running"
    /\ spc[s] = "ready"
    /\ IF readyCh = "closed"
       THEN /\ proc' = "panicked"
            /\ spc' = [spc EXCEPT ![s] = "panic"]
            /\ UNCHANGED <<sideVars, readyCh, doneAtReady, waitVars>>
       ELSE /\ readyCh' = "closed"
            /\ doneAtReady' = ctxDone
            /\ spc' = [spc EXCEPT ![s] = "accept"]
            /\ wpc' = [w \in WaiterIds |->
                          IF WokenByReady(w) THEN "woken" ELSE wpc[w]]
            /\ wres' = [w \in WaiterIds |->
                          IF WokenByReady(w) THEN "nil" ELSE wres[w]]
            /\ UNCHANGED <<sideVars, proc, wctx, wseen>>
    /\ UNCHANGED <<sideVars, ctxDone, localPort, portWrites, sret, listener, watcher,
                   fwdVars, dataVars>>

\* The connection listener.Accept() returns next: the oldest one waiting in
\* the backlog of s's listening socket.
NextPending(s) ==
    LET P == {f \in ConnIds : fpc[f] = "pending" /\ clis[f] = s}
    IN  IF P = {} THEN 0 ELSE CHOOSE f \in P : \A g \in P : f <= g

\* A faulty accept loop that runs forward inline: it is back at Accept only
\* once the forward it called has returned.
StartAcceptSerial(s) ==
    /\ proc = "running"
    /\ spc[s] = "accept"
    /\ listener[s].st = "open"
    /\ NextPending(s) # 0
    /\ \A g \in ConnIds : fpc[g] \notin {"dial", "open", "copy"}
    /\ fpc' = [fpc EXCEPT ![NextPending(s)] = "dial"]
    /\ localConn' = [localConn EXCEPT ![NextPending(s)] = "open"]
    /\ UNCHANGED <<sideVars, lifeVars, waitVars, clis, sessOf, chanOf, serverConn, remoteConn, cp,
                   cClosed, rClosed, dataVars>>

\* sshTunnel.go:122,136-137 Accept returns a connection and Start hands it
\* to a new forward goroutine, then loops.
StartAccept(s) ==
    /\ proc = "running"
    /\ spc[s] = "accept"
    /\ listener[s].st = "open"
    /\ NextPending(s) # 0
    /\ fpc' = [fpc EXCEPT ![NextPending(s)] = "dial"]
    /\ localConn' = [localConn EXCEPT ![NextPending(s)] = "open"]
    /\ UNCHANGED <<sideVars, lifeVars, waitVars, clis, sessOf, chanOf, serverConn, remoteConn, cp,
                   cClosed, rClosed, dataVars>>

\* sshTunnel.go:122-123 Accept returns an error: always once the listener
\* is closed, and for reasons of the OS's own (EMFILE, ECONNABORTED, ...)
\* while it is open.
StartAcceptFail(s) ==
    /\ proc = "running"
    /\ spc[s] = "accept"
    /\ spc' = [spc EXCEPT ![s] = "accepterr"]
    /\ UNCHANGED <<sideVars, proc, ctxDone, readyCh, localPort, portWrites, doneAtReady,
                   sret, listener, watcher, waitVars, fwdVars, dataVars>>

\* sshTunnel.go:124-133 the select on ctx.Done() with a default case: nil
\* if the context is done when the error is handled, the error otherwise.
\* A faulty Start that tells shutdown from failure by the kind of error
\* (listener closed or not) instead of by the cancellation state.
AcceptErrByListener(s) == IF listener[s].st = "closed" THEN "nil" ELSE "err"

\* sshTunnel.go:124-133 the select on ctx.Done() after a failed Accept.
AcceptErrResult(s) == IF StartCtx \in ctxDone THEN "nil" ELSE "err"

\* A faulty Start that closes its listener itself when it returns.
StartHandleAcceptErrCloses(s) ==
    /\ proc = "running"
    /\ spc[s] = "accepterr"
    /\ spc' = [spc EXCEPT ![s] = "returned"]
    /\ sret' = [sret EXCEPT ![s] = AcceptErrResult(s)]
    /\ listener' = [listener EXCEPT ![s].st = "closed"]
    /\ UNCHANGED <<sideVars, proc, ctxDone, readyCh, localPort, portWrites, doneAtReady,
                   watcher, waitVars, fwdVars, dataVars>>

\* sshTunnel.go:123-133 Start returns: nil if ctx is done, the error if not.
StartHandleAcceptErr(s) ==
    /\ proc = "running"
    /\ spc[s] = "accepterr"
    /\ spc' = [spc EXCEPT ![s] = "returned"]
    /\ sret' = [sret EXCEPT ![s] = AcceptErrResult(s)]
    /\ UNCHANGED <<sideVars, proc, ctxDone, readyCh, localPort, portWrites, doneAtReady,
                   listener, watcher, waitVars, fwdVars, dataVars>>

\* main.go:62-66 the goroutine that called Start gets an error back:
\* log.Fatalf ends the process.
CallerFatalOnStart(s) ==
    /\ proc = "running"
    /\ spc[s] = "returned"
    /\ sret[s] = "err"
    /\ proc' = "exited"
    /\ UNCHANGED <<sideVars, ctxDone, readyCh, localPort, portWrites, doneAtReady, spc,
                   sret, listener, watcher, waitVars, fwdVars, dataVars>>

\* A faulty watcher that closes, with the listener, the local connection of
\* every forward in flight.
WatcherCloseAll(s) ==
    /\ proc = "running"
    /\ watcher[s] = "waiting"
    /\ StartCtx \in ctxDone
    /\ watcher' = [watcher EXCEPT ![s] = "done"]
    /\ listener' = [listener EXCEPT ![s].st = "closed"]
    /\ fpc' = [f \in ConnIds |->
                 IF fpc[f] = "pending" /\ clis[f] = s THEN "reset" ELSE fpc[f]]
    /\ localConn' = [f \in ConnIds |->
                 IF localConn[f] = "open" THEN "closed" ELSE localConn[f]]
    /\ UNCHANGED <<sideVars, proc, ctxDone, readyCh, localPort, portWrites, doneAtReady,
                   spc, sret, waitVars, clis, sessOf, chanOf, serverConn,
                   remoteConn, cp, cClosed, rClosed, dataVars>>

\* sshTunnel.go:110-111 the watcher: once ctx is done, listener.Close().
\* The OS resets the connections still waiting in the closed socket's backlog.
WatcherClose(s) ==
    /\ proc = "running"
    /\ watcher[s] = "waiting"
    /\ StartCtx \in ctxDone
    /\ watcher' = [watcher EXCEPT ![s] = "done"]
    /\ listener' = [listener EXCEPT ![s].st = "closed"]
    /\ fpc' = [f \in ConnIds |->
                 IF fpc[f] = "pending" /\ clis[f] = s THEN "reset" ELSE fpc[f]]
    /\ UNCHANGED <<sideVars, proc, ctxDone, readyCh, localPort, portWrites, doneAtReady,
                   spc, sret, waitVars, clis, localConn, sessOf, chanOf, serverConn,
                   remoteConn, cp, cClosed, rClosed, dataVars>>

\* ---------------------------------------------------------- cancellation
\* cancel() of context c (main.go:36,177): closes c's Done channel, which
\* wakes the WaitReady callers parked on it.
Cancel(c) ==
    /\ proc = "running"
    /\ c \notin ctxDone
    /\ ctxDone' = ctxDone \cup {c}
    /\ wpc' = [w \in WaiterIds |->
                 IF WokenByCancel(w, c) THEN "woken" ELSE wpc[w]]
    /\ wres' = [w \in WaiterIds |->
                 IF WokenByCancel(w, c) THEN "cancelled" ELSE wres[w]]
    /\ UNCHANGED <<sideVars, proc, readyCh, localPort, portWrites, doneAtReady, spc, sret,
                   listener, watcher, wctx, wseen, fwdVars, dataVars>>

\* ------------------------------------------------- SSHTunnel.WaitReady
\* sshTunnel.go:141-148 called with context c.  The select returns at once
\* with a ready case, or parks the caller.
WaitReadyCall(w, c) ==
    /\ proc = "running"
    /\ wpc[w] = "idle"
    /\ \A v \in WaiterIds : v < w => wpc[v] # "idle"
    /\ wctx' = [wctx EXCEPT ![w] = c]
    /\ IF SelectReady(c) = {}
       THEN /\ wpc' = [wpc EXCEPT ![w] = "parked"]
            /\ UNCHANGED wres
       ELSE \E r \in SelectReady(c) :
               /\ wpc' = [wpc EXCEPT ![w] = "returned"]
               /\ wres' = [wres EXCEPT ![w] = r]
    /\ UNCHANGED <<sideVars, lifeVars, wseen, fwdVars, dataVars>>

\* A woken WaitReady is scheduled and returns the case that woke it.
WaitReadyReturn(w) ==
    /\ proc = "running"
    /\ wpc[w] = "woken"
    /\ wpc' = [wpc EXCEPT ![w] = "returned"]
    /\ UNCHANGED <<sideVars, lifeVars, wctx, wres, wseen, fwdVars, dataVars>>

\* main.go:70-72 WaitReady returned the context's error: log.Fatalf ends
\* the process.
CallerFatalOnWait(w) ==
    /\ proc = "running"
    /\ wpc[w] = "returned"
    /\ wres[w] = "cancelled"
    /\ proc' = "exited"
    /\ UNCHANGED <<sideVars, ctxDone, readyCh, localPort, portWrites, doneAtReady, spc,
                   sret, listener, watcher, waitVars, fwdVars, dataVars>>

\* main.go:70-79 after WaitReady returned nil the caller reads
\* sshTunnel.Local.Port.
ReadPort(w) ==
    /\ proc = "running"
    /\ wpc[w] = "returned"
    /\ wres[w] = "nil"
    /\ wseen[w] = -1
    /\ wseen' = [wseen EXCEPT ![w] = localPort]
    /\ UNCHANGED <<sideVars, lifeVars, wpc, wctx, wres, fwdVars, dataVars>>

\* ------------------------------------------------------- the environment
\* A local client connects to the port s's listener holds.  The OS completes
\* the handshake and queues the connection until Accept takes it.
ClientConnect(f, s) ==
    /\ proc = "running"
    /\ fpc[f] = "none"
    /\ \A g \in ConnIds : g < f => fpc[g] # "none"
    /\ listener[s].st = "open"
    /\ fpc' = [fpc EXCEPT ![f] = "pending"]
    /\ clis' = [clis EXCEPT ![f] = s]
    /\ UNCHANGED <<sideVars, lifeVars, waitVars, localConn, sessOf, chanOf, serverConn, remoteConn, cp,
                   cClosed, rClosed, dataVars>>

\* The forward of connection f has been dispatched and has not returned.
InFlight(f) == fpc[f] \in {"dial", "open", "copy"}

\* The local client closes its side: localConn reads end-of-stream once the
\* bytes already written are consumed.
ClientClose(f) ==
    /\ proc = "running"
    /\ InFlight(f)
    /\ ~cClosed[f]
    /\ cClosed' = [cClosed EXCEPT ![f] = TRUE]
    /\ UNCHANGED <<sideVars, lifeVars, waitVars, fpc, clis, localConn, sessOf, chanOf, serverConn,
                   remoteConn, cp, rClosed, dataVars>>

\* The remote destination closes its side of channel ch.
RemoteClose(ch) ==
    /\ proc = "running"
    /\ remoteConn[ch] = "open"
    /\ ~rClosed[ch]
    /\ rClosed' = [rClosed EXCEPT ![ch] = TRUE]
    /\ UNCHANGED <<sideVars, lifeVars, waitVars, fpc, clis, localConn, sessOf, chanOf, serverConn,
                   remoteConn, cp, cClosed, dataVars>>

\* The i-th byte a party writes carries the party's mark.
ClientByte(f, i) == [from |-> "client", id |-> f, seq |-> i]
RemoteByte(ch, i) == [from |-> "remote", id |-> ch, seq |-> i]

\* The local client writes its next byte to the connection.
ClientSend(f) ==
    /\ proc = "running"
    /\ InFlight(f)
    /\ ~cClosed[f]
    /\ cSent[f] < PayloadLen
    /\ cSent' = [cSent EXCEPT ![f] = cSent[f] + 1]
    /\ inL' = [inL EXCEPT ![f] = Append(inL[f], ClientByte(f, cSent[f] + 1))]
    /\ UNCHANGED <<sideVars, lifeVars, waitVars, fwdVars, rSent, inR, rRecv, lRecv>>

\* The remote destination writes its next byte to channel ch.
RemoteSend(ch) ==
    /\ proc = "running"
    /\ remoteConn[ch] = "open"
    /\ ~rClosed[ch]
    /\ rSent[ch] < PayloadLen
    /\ rSent' = [rSent EXCEPT ![ch] = rSent[ch] + 1]
    /\ inR' = [inR EXCEPT ![ch] = Append(inR[ch], RemoteByte(ch, rSent[ch] + 1))]
    /\ UNCHANGED <<sideVars, lifeVars, waitVars, fwdVars, cSent, inL, rRecv, lRecv>>

\* ---------------------------------------------------- SSHTunnel.forward
\* ssh.Dial (sshTunnel.go:158) and serverConn.Dial (sshTunnel.go:167) build
\* a new client, and a new channel, on every call: the one forward f gets.
NewSession(f) == f

\* A faulty forward that reuses one remote channel for every connection.
SharedChannel(f) == 1

\* serverConn.Dial (sshTunnel.go:167): a channel of forward f's own.
NewChannel(f) == f

\* sshTunnel.go:158-164 the jump host answers and authenticates.
FwdDialOK(f) ==
    /\ proc = "running"
    /\ fpc[f] = "dial"
    /\ sessOf' = [sessOf EXCEPT ![f] = NewSession(f)]
    /\ serverConn' = [serverConn EXCEPT ![NewSession(f)] = "open"]
    /\ fpc' = [fpc EXCEPT ![f] = "open"]
    /\ UNCHANGED <<sideVars, lifeVars, waitVars, clis, localConn, chanOf, remoteConn, cp, cClosed,
                   rClosed, dataVars>>

\* A faulty forward that treats a failed jump-host dial like a failed
\* channel open: it logs, closes the local connection and returns.
FwdDialFailReturns(f) ==
    /\ proc = "running"
    /\ fpc[f] = "dial"
    /\ fpc' = [fpc EXCEPT ![f] = "fatal"]
    /\ localConn' = [localConn EXCEPT ![f] = "closed"]
    /\ UNCHANGED <<sideVars, lifeVars, waitVars, clis, sessOf, chanOf, serverConn,
                   remoteConn, cp, cClosed, rClosed, dataVars>>

\* sshTunnel.go:158-161 the dial fails (refused, bad key, 5 s timeout):
\* log.Fatalf prints and calls os.Exit(1); no deferred call runs.
FwdDialFail(f) ==
    /\ proc = "running"
    /\ fpc[f] = "dial"
    /\ proc' = "exited"
    /\ fpc' = [fpc EXCEPT ![f] = "fatal"]
    /\ UNCHANGED <<sideVars, ctxDone, readyCh, localPort, portWrites, doneAtReady, spc,
                   sret, listener, watcher, waitVars, clis, localConn, sessOf,
                   chanOf, serverConn, remoteConn, cp, cClosed, rClosed, dataVars>>

\* A faulty forward that opens the remote channel without waiting for the
\* jump-host dial to succeed.
FwdOpenBeforeDial(f) ==
    /\ proc = "running"
    /\ fpc[f] \in {"dial", "open"}
    /\ chanOf' = [chanOf EXCEPT ![f] = f]
    /\ remoteConn' = [remoteConn EXCEPT ![f] = "open"]
    /\ cp' = [cp EXCEPT ![f] = "run"]
    /\ fpc' = [fpc EXCEPT ![f] = "copy"]
    /\ UNCHANGED <<sideVars, lifeVars, waitVars, clis, localConn, sessOf, serverConn, cClosed,
                   rClosed, dataVars>>

\* sshTunnel.go:167-181 the channel to the remote destination opens, the
\* remote->local copy goroutine is spawned and the forward enters the
\* local->remote copy of line 186.
FwdOpenOK(f) ==
    /\ proc = "running"
    /\ fpc[f] = "open"
    /\ chanOf' = [chanOf EXCEPT ![f] = NewChannel(f)]
    /\ remoteConn' = [remoteConn EXCEPT ![NewChannel(f)] = "open"]
    /\ cp' = [cp EXCEPT ![f] = "run"]
    /\ fpc' = [fpc EXCEPT ![f] = "copy"]
    /\ UNCHANGED <<sideVars, lifeVars, waitVars, clis, localConn, sessOf, serverConn, cClosed,
                   rClosed, dataVars>>

\* A faulty forward that defers only localConn.Close().
DeferredLocalOnly(f) == {"local"}

\* The deferred Close calls forward f has registered so far
\* (sshTunnel.go:155, 162, 172).
Deferred(f) ==
    {"local"} \cup (IF sessOf[f] # 0 THEN {"server"} ELSE {})
              \cup (IF chanOf[f] # 0 THEN {"remote"} ELSE {})

\* forward returns: the deferred calls run (remoteConn, serverConn,
\* localConn) and the goroutine ends at position `how`.
FwdReturn(f, how) ==
    /\ fpc' = [fpc EXCEPT ![f] = how]
    /\ localConn' = IF "local" \in Deferred(f)
                THEN [localConn EXCEPT ![f] = "closed"] ELSE localConn
    /\ serverConn' = IF "server" \in Deferred(f)
                THEN [serverConn EXCEPT ![sessOf[f]] = "closed"] ELSE serverConn
    /\ remoteConn' = IF "remote" \in Deferred(f)
                THEN [remoteConn EXCEPT ![chanOf[f]] = "closed"] ELSE remoteConn

\* sshTunnel.go:167-171 the channel open fails: logged, return.
FwdOpenFail(f) ==
    /\ proc = "running"
    /\ fpc[f] = "open"
    /\ FwdReturn(f, "openfailed")
    /\ UNCHANGED <<sideVars, lifeVars, waitVars, clis, sessOf, chanOf, cp, cClosed,
                   rClosed, dataVars>>

\* sshTunnel.go:186 one round of io.Copy(remoteConn, localConn): a byte
\* read from the local connection is written to the remote channel.
CopyL2R(f) ==
    /\ proc = "running"
    /\ fpc[f] = "copy"
    /\ localConn[f] = "open"
    /\ remoteConn[chanOf[f]] = "open"
    /\ inL[f] # <<>>
    /\ inL' = [inL EXCEPT ![f] = Tail(inL[f])]
    /\ rRecv' = [rRecv EXCEPT ![chanOf[f]] = Append(rRecv[chanOf[f]], Head(inL[f]))]
    /\ UNCHANGED <<sideVars, lifeVars, waitVars, fwdVars, cSent, rSent, inR, lRecv>>

\* sshTunnel.go:186-190 io.Copy(remoteConn, localConn) returns on
\* end-of-stream of the local connection; forward returns.
FwdCopyEOF(f) ==
    /\ proc = "running"
    /\ fpc[f] = "copy"
    /\ localConn[f] = "open"
    /\ cClosed[f]
    /\ inL[f] = <<>>
    /\ FwdReturn(f, "eof")
    /\ UNCHANGED <<sideVars, lifeVars, waitVars, clis, sessOf, chanOf, cp, cClosed,
                   rClosed, dataVars>>

\* sshTunnel.go:186-190 io.Copy(remoteConn, localConn) returns a read or
\* write error (a reset, a closed connection): logged; forward returns.
FwdCopyErr(f) ==
    /\ proc = "running"
    /\ fpc[f] = "copy"
    /\ FwdReturn(f, "copyerr")
    /\ UNCHANGED <<sideVars, lifeVars, waitVars, clis, sessOf, chanOf, cp, cClosed,
                   rClosed, dataVars>>

\* sshTunnel.go:178 one round of io.Copy(localConn, remoteConn) in the
\* spawned goroutine.
CopyR2L(f) ==
    /\ proc = "running"
    /\ cp[f] = "run"
    /\ localConn[f] = "open"
    /\ remoteConn[chanOf[f]] = "open"
    /\ inR[chanOf[f]] # <<>>
    /\ inR' = [inR EXCEPT ![chanOf[f]] = Tail(inR[chanOf[f]])]
    /\ lRecv' = [lRecv EXCEPT ![f] = Append(lRecv[f], Head(inR[chanOf[f]]))]
    /\ UNCHANGED <<sideVars, lifeVars, waitVars, fwdVars, cSent, inL, rSent, rRecv>>

\* sshTunnel.go:177-181 the spawned io.Copy(localConn, remoteConn) returns
\* on end-of-stream of the remote channel; the goroutine ends.
SpawnCopyEOF(f) ==
    /\ proc = "running"
    /\ cp[f] = "run"
    /\ localConn[f] = "open"
    /\ remoteConn[chanOf[f]] = "open"
    /\ rClosed[chanOf[f]]
    /\ inR[chanOf[f]] = <<>>
    /\ cp' = [cp EXCEPT ![f] = "stop"]
    /\ UNCHANGED <<sideVars, lifeVars, waitVars, fpc, clis, localConn, sessOf, chanOf, serverConn,
                   remoteConn, cClosed, rClosed, dataVars>>

\* sshTunnel.go:177-181 the spawned io.Copy returns an error (a reset, or
\* a connection closed by forward's deferred calls): logged; it ends.
SpawnCopyErr(f) ==
    /\ proc = "running"
    /\ cp[f] = "run"
    /\ cp' = [cp EXCEPT ![f] = "stop"]
    /\ UNCHANGED <<sideVars, lifeVars, waitVars, fpc, clis, localConn, sessOf, chanOf, serverConn,
                   remoteConn, cClosed, rClosed, dataVars>>

\* ------------------------------------------------------- specifications
\* Start up to the accept loop, invoked once as main.go does (main.go:62-66).
BindStep ==
    \/ \E p \in Ports : StartListenOK(1, p)
    \/ StartListenFail(1)
    \/ \E s \in StartIds :
          \/ StartSpawnWatcher(s)
          \/ StartSetPort(s)
          \/ StartCloseReady(s)

\* A failed Accept and what follows it.
AcceptFailStep ==
    \E s \in StartIds :
        \/ StartAcceptFail(s)
        \/ StartHandleAcceptErr(s)
        \/ CallerFatalOnStart(s)

\* The watcher's reaction to the cancellation of Start's context.
WatchStep == \E s \in StartIds : WatcherClose(s)

WaitStep ==
    \E w \in WaiterIds :
        \/ \E c \in Ctxs : WaitReadyCall(w, c)
        \/ WaitReadyReturn(w)
        \/ ReadPort(w)
        \/ CallerFatalOnWait(w)

\* A client connects, Start accepts it, its forward dials the jump host.
ConnStep ==
    \/ \E f \in ConnIds, s \in StartIds : ClientConnect(f, s)
    \/ \E s \in StartIds : StartAccept(s)
    \/ \E f \in ConnIds : FwdDialOK(f) \/ FwdDialFail(f)

\* A forward from the channel open to its return; the two ends closing.
FwdStep ==
    \E f \in ConnIds :
        \/ ClientClose(f)
        \/ RemoteClose(f)
        \/ FwdOpenOK(f)
        \/ FwdOpenFail(f)
        \/ FwdCopyEOF(f)
        \/ FwdCopyErr(f)
        \/ SpawnCopyEOF(f)
        \/ SpawnCopyErr(f)

\* Steps that move payload bytes.
DataStep ==
    \E f \in ConnIds :
        \/ ClientSend(f)
        \/ RemoteSend(f)
        \/ CopyL2R(f)
        \/ CopyR2L(f)

\* The whole program in its whole environment.
Next ==
    \/ BindStep \/ AcceptFailStep \/ WatchStep
    \/ \E c \in Ctxs : Cancel(c)
    \/ WaitStep
    \/ ConnStep \/ FwdStep \/ DataStep

Spec == Init /\ [][Next]_vars

\* The specifications below are Spec in an environment that refrains from
\* some of its moves; every state they reach is a state of Spec.  The
\* moves left out do not bear on what is checked under them: a forward past
\* its jump-host dial reads and writes only its own connections and
\* payload (fwdVars, dataVars), WaitReady only waitVars, and neither
\* changes what Start, the watcher or another forward can do.

\* Readiness: Start, the watcher, cancellation and WaitReady, with clients
\* whose forwards get as far as the jump-host dial (the channel open to the
\* remote destination, which has no timeout, stays pending).
NextReady ==
    \/ BindStep \/ AcceptFailStep \/ WatchStep
    \/ \E c \in Ctxs : Cancel(c)
    \/ WaitStep
    \/ ConnStep

SpecReady == Init /\ [][NextReady]_vars

\* Forwarding: Start, the watcher, cancellation and the forwards from
\* accept to return, with clients that send no payload; nobody calls
\* WaitReady.
NextForward ==
    \/ BindStep \/ AcceptFailStep \/ WatchStep
    \/ Cancel(StartCtx)
    \/ ConnStep \/ FwdStep

SpecForward == Init /\ [][NextForward]_vars

\* Relaying: the forwards with payload, under a Start that is neither
\* cancelled nor hit by a failing Accept; nobody calls WaitReady.
NextRelay == BindStep \/ ConnStep \/ FwdStep \/ DataStep

SpecRelay == Init /\ [][NextRelay]_vars

\* Start invoked again on the same descriptor, at any time after the
\* previous invocation began (nothing in SSHTunnel forbids it).
StartAgainOK(s, p) ==
    /\ s > 1
    /\ spc[s - 1] # "idle"
    /\ StartListenOK(s, p)

StartAgainFail(s) ==
    /\ s > 1
    /\ spc[s - 1] # "idle"
    /\ StartListenFail(s)

\* Repeated Start, cancellation and WaitReady on one descriptor, with no
\* client connecting.
NextRestart ==
    \/ BindStep \/ AcceptFailStep \/ WatchStep
    \/ \E c \in Ctxs : Cancel(c)
    \/ WaitStep
    \/ \E s \in StartIds, p \in Ports : StartAgainOK(s, p)
    \/ \E s \in StartIds : StartAgainFail(s)

SpecRestart == Init /\ [][NextRestart]_vars

\* ------------------------------------------------ construction, alone
\* The constructor and the endpoint functions on every address string up
\* to the bounds; nothing of the tunnel runs.
InitParse ==
    /\ InitTunnel
    /\ InitWatchdog
    /\ tunnelAddress \in Strs(MaxAddrLen)
    /\ destination \in Strs(MaxDestLen)
    /\ tunnel = <<>>
    /\ endpoint = <<>>
    /\ rendered = <<>>

\* main.go:54-58 the descriptor is built.
Construct ==
    /\ tunnel = <<>>
    /\ tunnel' = <<NewSSHTunnel(tunnelAddress, destination)>>
    /\ UNCHANGED <<lifeVars, waitVars, fwdVars, dataVars, dogVars,
                   tunnelAddress, destination, endpoint, rendered>>

\* NewEndpoint applied to the address string.
ParseEndpoint ==
    /\ endpoint = <<>>
    /\ endpoint' = <<NewEndpoint(tunnelAddress)>>
    /\ UNCHANGED <<lifeVars, waitVars, fwdVars, dataVars, dogVars,
                   tunnelAddress, destination, tunnel, rendered>>

\* String applied to the parsed endpoint.
Render ==
    /\ endpoint # <<>>
    /\ rendered = <<>>
    /\ rendered' = <<String(endpoint[1])>>
    /\ UNCHANGED <<lifeVars, waitVars, fwdVars, dataVars, dogVars,
                   tunnelAddress, destination, tunnel, endpoint>>

NextParse == Construct \/ ParseEndpoint \/ Render

SpecParse == InitParse /\ [][NextParse]_vars

\* ------------------------------------------------- dbops.StartWatchdog
\* main.go:97 `go dbops.StartWatchdog(ctx, db, 30*time.Second)`;
\* part_000:12-13 the ticker is created and its Stop deferred.
DogStart ==
    /\ proc = "running"
    /\ dpc = "idle"
    /\ dpc' = "select"
    /\ UNCHANGED <<lifeVars, waitVars, fwdVars, dataVars, parseVars,
                   tickPending, ticks, pings, pingFails, dogDefers>>

\* The running ticker fires.  ticker.C holds one tick: a tick that finds
\* the previous one unread is dropped.
Tick ==
    /\ proc = "running"
    /\ dpc \in {"select", "ping"}
    /\ ticks < MaxTicks
    /\ ticks' = ticks + 1
    /\ tickPending' = TRUE
    /\ UNCHANGED <<lifeVars, waitVars, fwdVars, dataVars, parseVars,
                   dpc, pings, pingFails, dogDefers>>

\* A faulty watchdog that gives up on the first failed ping.
DogPingFailStops ==
    /\ proc = "running"
    /\ dpc = "ping"
    /\ pingFails' = pingFails + 1
    /\ dpc' = "returned"
    /\ dogDefers' = 0
    /\ tickPending' = FALSE
    /\ UNCHANGED <<lifeVars, waitVars, fwdVars, dataVars, parseVars,
                   ticks, pings>>

\* part_000:20-22 the select takes <-ctx.Done(): the watchdog logs and
\* returns; the deferred cancel() calls and ticker.Stop() run.  When a
\* tick is pending too, the select may take either case.
DogSelectDone ==
    /\ proc = "running"
    /\ dpc = "select"
    /\ StartCtx \in ctxDone
    /\ dpc' = "returned"
    /\ dogDefers' = 0
    /\ UNCHANGED <<lifeVars, waitVars, fwdVars, dataVars, parseVars,
                   tickPending, ticks, pings, pingFails>>

\* part_000:23-30 the select takes <-ticker.C: a ping context with a 5 s
\* timeout is derived, its cancel deferred, and db.PingContext is called.
DogSelectTick ==
    /\ proc = "running"
    /\ dpc = "select"
    /\ tickPending
    /\ tickPending' = FALSE
    /\ dpc' = "ping"
    /\ pings' = pings + 1
    /\ dogDefers' = dogDefers + 1
    /\ UNCHANGED <<lifeVars, waitVars, fwdVars, dataVars, parseVars,
                   ticks, pingFails>>

\* part_000:30 db.PingContext returns nil; back to the select.
DogPingOK ==
    /\ proc = "running"
    /\ dpc = "ping"
    /\ dpc' = "select"
    /\ UNCHANGED <<lifeVars, waitVars, fwdVars, dataVars, parseVars,
                   tickPending, ticks, pings, pingFails, dogDefers>>

\* part_000:30-32 db.PingContext returns an error (the database is down,
\* the 5 s ran out, ctx was cancelled): logged; back to the select.
DogPingFail ==
    /\ proc = "running"
    /\ dpc = "ping"
    /\ pingFails' = pingFails + 1
    /\ dpc' = "select"
    /\ UNCHANGED <<lifeVars, waitVars, fwdVars, dataVars, parseVars,
                   tickPending, ticks, pings, dogDefers>>

\* main.go:172-179 main's last select sees ctx done (or a signal, and
\* cancels) and main returns: the process ends with whatever goroutines
\* are left.
MainReturn ==
    /\ proc = "running"
    /\ StartCtx \in ctxDone
    /\ proc' = "exited"
    /\ UNCHANGED <<ctxDone, readyCh, localPort, portWrites, doneAtReady, spc,
                   sret, listener, watcher, waitVars, fwdVars, dataVars, sideVars>>

\* The watchdog, its ticker, the cancellation and the end of main, with
\* the tunnel left aside.
NextWatchdog ==
    \/ DogStart
    \/ Tick
    \/ DogSelectDone
    \/ DogSelectTick
    \/ DogPingOK
    \/ DogPingFail
    \/ Cancel(StartCtx)
    \/ MainReturn

SpecWatchdog == Init /\ [][NextWatchdog]_vars

\* What Go's scheduler and the finite I/O timeouts guarantee: a goroutine
\* that can take a step of its own takes it.  Nothing obliges the
\* environment to connect, to close, to send, to fail or to cancel.
\* Start and its watcher (Accept returns once the listener is closed):
FairStart ==
    \A s \in StartIds :
        /\ WF_vars(StartSpawnWatcher(s))
        /\ WF_vars(StartSetPort(s))
        /\ WF_vars(StartCloseReady(s))
        /\ WF_vars(StartAccept(s))
        /\ WF_vars(StartHandleAcceptErr(s))
        /\ WF_vars(WatcherClose(s))
        /\ WF_vars(listener[s].st = "closed" /\ StartAcceptFail(s))

\* A woken WaitReady returns.
FairWait == \A w \in WaiterIds : WF_vars(WaitReadyReturn(w))

\* ssh.Dial ends one way or the other within ClientConfig.Timeout
\* (sshTunnel.go:92).
FairDial == \A f \in ConnIds : WF_vars(FwdDialOK(f) \/ FwdDialFail(f))

\* A copy whose source is at end-of-stream, or whose connection has been
\* closed under it, returns.
FairFwd ==
    \A f \in ConnIds :
        /\ WF_vars(FwdCopyEOF(f))
        /\ WF_vars(SpawnCopyEOF(f))
        /\ WF_vars(/\ cp[f] = "run"
                   /\ (localConn[f] # "open" \/ remoteConn[chanOf[f]] # "open")
                   /\ SpawnCopyErr(f))

\* The watchdog goroutine runs; a ping ends within its 5 s timeout
\* (part_000:25); Go's select picks at random among its ready cases, so a
\* case that is ready every time the select is reached is taken in the end.
FairWatchdog ==
    /\ SpecWatchdog
    /\ WF_vars(DogStart)
    /\ WF_vars(DogPingOK \/ DogPingFail)
    /\ SF_vars(DogSelectDone)
    /\ WF_vars(DogSelectTick)

FairReady == SpecReady /\ FairStart /\ FairWait /\ FairDial

FairForward == SpecForward /\ FairStart /\ FairDial /\ FairFwd

\* ------------------------------------------------------------ properties
\* Invocation s of Start has bound its listening socket.
Bound(s) == listener[s].st # "none"

\* Connection f has been accepted and handed to a forward.
Dispatched(f) == fpc[f] \in {"dial", "open", "copy", "openfailed", "eof", "copyerr", "fatal"}

\* The forward of connection f has ended.
Ended(f) == fpc[f] \in {"openfailed", "eof", "copyerr", "fatal"}

\* C1: once the cancellation signal has fired no connection is accepted and
\* dispatched to a forward any more, and if it fires after Start has bound
\* the listener Start eventually returns nil.
C1_CancelStopsAccepts ==
    /\ [][(StartCtx \in ctxDone =>
             \A f \in ConnIds : ~(fpc[f] = "pending" /\ fpc'[f] = "dial"))]_vars
    /\ \A s \in StartIds :
          (Bound(s) /\ StartCtx \in ctxDone) ~> (sret[s] = "nil")

\* C2 as written, on the runs that have ended: when the process has stopped,
\* every WaitReady that was called in a run where Start bound the listener
\* and the caller's context was not cancelled has returned nil.
C2_WaitReadyReturnsNil ==
    \A w \in WaiterIds :
        (proc # "running" /\ wpc[w] # "idle" /\ wctx[w] \notin ctxDone
            /\ \E s \in StartIds : Bound(s))
        => (wpc[w] = "returned" /\ wres[w] = "nil")

\* C2 amended: a WaitReady whose context is not cancelled never returns
\* anything but nil; one called after readiness has fired returns without
\* parking; and once Start has bound the listener a called WaitReady
\* eventually returns, unless its context is cancelled or the process is
\* ended first (log.Fatalf on a jump-host dial failure in a forward, or in
\* the caller of a Start that returned an error).
C2_WaitReadyReturnsNilWhileAlive ==
    /\ [](\A w \in WaiterIds :
             (wpc[w] = "returned" /\ wctx[w] \notin ctxDone) => wres[w] = "nil")
    /\ [][(\A w \in WaiterIds :
             (readyCh = "closed" /\ wpc[w] = "idle" /\ wpc'[w] # "idle")
                 => wpc'[w] = "returned")]_vars
    /\ \A w \in WaiterIds :
          (wpc[w] # "idle" /\ \E s \in StartIds : Bound(s))
              ~> (wpc[w] = "returned" \/ wctx[w] \in ctxDone \/ proc # "running")

\* A WaitReady has returned nil, its context not cancelled, and its caller
\* has read the port.
C2_Witness ==
    \E w \in WaiterIds :
        /\ wpc[w] = "returned" /\ wres[w] = "nil"
        /\ wctx[w] \notin ctxDone
        /\ wseen[w] # -1
        /\ \E s \in StartIds : Bound(s)

\* C3: a WaitReady whose context was cancelled before the readiness signal
\* fired never returns nil.
C3_CancelledBeforeReadyNeverNil ==
    \A w \in WaiterIds :
        (wpc[w] = "returned" /\ readyCh = "closed" /\ wctx[w] \in doneAtReady)
            => wres[w] = "cancelled"

\* C4: the readiness signal fires only once the socket is bound, never goes
\* back to not-ready, and no Start attempts to fire it a second time.
C4_ReadyFiresOnce ==
    /\ [](readyCh = "closed" => \E s \in StartIds : Bound(s))
    /\ [][(readyCh = "closed" => readyCh' = "closed")]_vars
    /\ [](\A s \in StartIds : spc[s] # "panic")

\* C5: once readiness has fired the local port is nonzero and is the bound
\* listener's port; the port is written once, before readiness fires and
\* before any connection is accepted; an observer that reads it after
\* WaitReady returned nil sees the bound port.
C5_PortPublishedBeforeReady ==
    /\ portWrites <= 1
    /\ readyCh = "closed" =>
          /\ portWrites = 1
          /\ localPort # 0
          /\ \E s \in StartIds : Bound(s) /\ localPort = listener[s].port
    /\ \A f \in ConnIds : Dispatched(f) => readyCh = "closed"
    /\ \A w \in WaiterIds :
          wseen[w] # -1 =>
              /\ wseen[w] # 0
              /\ \E s \in StartIds : Bound(s) /\ wseen[w] = listener[s].port

\* An observer has read the port after WaitReady returned nil, and a
\* connection has been accepted.
C5_Witness ==
    /\ \E w \in WaiterIds : wres[w] = "nil" /\ wseen[w] # -1
    /\ \E f \in ConnIds : Dispatched(f)

\* C6: once the listener is bound Start returns only from a failed Accept,
\* and it then returns an error exactly if the cancellation signal has not
\* fired at the moment the failure is handled, nil otherwise.
C6_AcceptFailureResult ==
    [][(\A s \in StartIds :
          (Bound(s) /\ spc[s] # "returned" /\ spc'[s] = "returned") =>
              /\ spc[s] = "accepterr"
              /\ sret'[s] = "err" <=> StartCtx \notin ctxDone
              /\ sret'[s] = "nil" <=> StartCtx \in ctxDone)]_vars

\* Accept failed for a reason of the OS's own while the listener was still
\* open, cancellation had fired when the failure was handled, and Start
\* returned nil.
C6_Witness ==
    \E s \in StartIds :
        /\ spc[s] = "returned" /\ sret[s] = "nil"
        /\ listener[s].st = "open"

\* C7: when binding fails Start returns an error, is not run again, and
\* leaves the tunnel as it was: readiness not fired, local port not written,
\* no watcher started, no connection ever accepted.
C7_BindFailureChangesNothing ==
    /\ [](\A s \in StartIds :
             (spc[s] = "returned" /\ ~Bound(s)) =>
                 /\ sret[s] = "err"
                 /\ watcher[s] = "none"
                 /\ readyCh = "open"
                 /\ localPort = 0 /\ portWrites = 0
                 /\ \A f \in ConnIds : fpc[f] = "none")
    /\ [][(\A s \in StartIds :
             (spc[s] = "returned" /\ ~Bound(s)) =>
                 (spc'[s] = "returned" /\ ~Bound(s)'))]_vars

\* Start has returned the bind error.
C7_Witness ==
    \E s \in StartIds : spc[s] = "returned" /\ ~Bound(s) /\ sret[s] = "err"

\* What the program holds of connection g's forward.
FwdState(g) ==
    <<fpc[g], localConn[g], sessOf[g], chanOf[g], cp[g],
      IF sessOf[g] = 0 THEN "none" ELSE serverConn[sessOf[g]],
      IF chanOf[g] = 0 THEN "none" ELSE remoteConn[chanOf[g]]>>

\* C8: a forward whose channel open fails closes its local connection and
\* its jump-host session and ends; that step changes neither the accept
\* loop nor any other forward, and the process keeps running.
C8_OpenFailureIsLocal ==
    /\ [](\A f \in ConnIds :
             fpc[f] = "openfailed" =>
                 localConn[f] = "closed" /\ serverConn[sessOf[f]] = "closed")
    /\ [][(\A f \in ConnIds :
             (fpc[f] = "open" /\ fpc'[f] = "openfailed") =>
                 /\ \A g \in ConnIds \ {f} : FwdState(g)' = FwdState(g)
                 /\ UNCHANGED <<proc, spc, sret, listener, watcher>>)]_vars

\* One forward ended on a failed channel open while the other relays and
\* Start still accepts.
C8_Witness ==
    \E f, g \in ConnIds :
        /\ fpc[f] = "openfailed" /\ fpc[g] = "copy"
        /\ serverConn[sessOf[g]] = "open"
        /\ \E s \in StartIds : spc[s] = "accept" /\ listener[s].st = "open"
        /\ proc = "running"

\* C9: no forward ends while its local connection, its jump-host session
\* or its remote channel is still open.
C9_EndedForwardHoldsNothing ==
    \A f \in ConnIds :
        Ended(f) =>
            /\ localConn[f] # "open"
            /\ sessOf[f] # 0 => serverConn[sessOf[f]] # "open"
            /\ chanOf[f] # 0 => remoteConn[chanOf[f]] # "open"

\* C10: two forwards never share a jump-host session or a remote channel,
\* and every byte delivered to a forward's remote channel was written by
\* that forward's own client, every byte delivered to its client by the
\* remote end of its own channel, in the order written.
C10_ForwardsAreIndependent ==
    /\ \A f, g \in ConnIds :
          f # g =>
              /\ sessOf[f] # 0 => sessOf[f] # sessOf[g]
              /\ chanOf[f] # 0 => chanOf[f] # chanOf[g]
    /\ \A f \in ConnIds :
          chanOf[f] # 0 =>
              /\ \A i \in 1..Len(rRecv[chanOf[f]]) :
                    rRecv[chanOf[f]][i] = ClientByte(f, i)
              /\ \A i \in 1..Len(lRecv[f]) :
                    lRecv[f][i] = RemoteByte(chanOf[f], i)

\* Two connections relay at the same time and each has delivered bytes both
\* ways.
C10_Witness ==
    \A f \in {1, 2} :
        /\ fpc[f] = "copy"
        /\ chanOf[f] # 0
        /\ rRecv[chanOf[f]] # <<>>
        /\ lRecv[f] # <<>>

\* C11: of a forward whose dial and channel open succeeded, every byte the
\* client wrote reaches the remote destination and every byte the remote
\* destination wrote reaches the client, in order and without loss, also
\* when the client finishes sending while bytes of the return path are in
\* transit.  Once the forward has returned on the client's end-of-stream
\* its connections are closed and nothing more can arrive, so by then
\* everything written must have been delivered.
C11_RelayLosesNothing ==
    \A f \in ConnIds :
        (fpc[f] = "eof" /\ cp[f] = "run") =>
            /\ rRecv[chanOf[f]] = [i \in 1..cSent[f] |-> ClientByte(f, i)]
            /\ lRecv[f] = [i \in 1..rSent[chanOf[f]] |-> RemoteByte(chanOf[f], i)]

\* C12: the descriptor NewSSHTunnel builds has jump-host port 22 exactly
\* when parsing the jump-host address yielded port 0 and the parsed port
\* otherwise; its jump-host port is never 0, its local port is 0 and its
\* remote port is the parsed one.
C12_ServerPort22IffParsedZero ==
    tunnel # <<>> =>
        LET parsed == NewEndpoint(tunnelAddress).Port
        IN  /\ (tunnel[1].Server.Port = 22) <=> (parsed = 0)
            /\ parsed # 0 => tunnel[1].Server.Port = parsed
            /\ tunnel[1].Server.Port # 0
            /\ tunnel[1].Local.Port = 0
            /\ tunnel[1].Remote.Port = NewEndpoint(destination).Port

\* C12 as it holds: the jump-host port is 22 if parsing yielded 0 and the
\* parsed port otherwise (22 too when the address names port 22); it is
\* never 0, the local port is 0 and the remote port is the parsed one.
C12_ServerPortDefaulted ==
    tunnel # <<>> =>
        LET parsed == NewEndpoint(tunnelAddress).Port
        IN  /\ parsed = 0 => tunnel[1].Server.Port = 22
            /\ parsed # 0 => tunnel[1].Server.Port = parsed
            /\ tunnel[1].Server.Port # 0
            /\ tunnel[1].Local.Port = 0
            /\ tunnel[1].Remote.Port = NewEndpoint(destination).Port

\* A descriptor built from a jump-host address without a port and a
\* destination whose port parses to 0: the first is defaulted, the second
\* is not.
C12_Witness ==
    /\ tunnel # <<>>
    /\ \A i \in 1..Len(tunnelAddress) : tunnelAddress[i] # ":"
    /\ tunnel[1].Server.Port = 22
    /\ tunnel[1].Remote.Port = 0
    /\ tunnel[1].Local.Port = 0

\* C13: NewEndpoint takes the text before the last '@' as the user (the
\* empty string if there is no '@'), the text between that '@' and the ':'
\* as the host and the number after the ':' as the port (0 if the port is
\* missing or not a number), and rendering the parsed endpoint yields that
\* host, ':' and that port.  Stated for the addresses with at most one ':'
\* after their last '@'.
C13_ParseUserHostPort ==
    LET s     == tunnelAddress
        ats   == {i \in 1..Len(s) : s[i] = "@"}
        a     == IF ats = {} THEN 0
                 ELSE CHOOSE i \in ats : \A j \in ats : j <= i
        rest  == SubSeq(s, a + 1, Len(s))
        cols  == {i \in 1..Len(rest) : rest[i] = ":"}
        c     == IF cols = {} THEN Len(rest) + 1 ELSE CHOOSE i \in cols : TRUE
        ptext == SubSeq(rest, c + 1, Len(rest))
        user  == SubSeq(s, 1, a - 1)
        host  == SubSeq(rest, 1, c - 1)
        port  == IF ptext # <<>> /\ \A i \in 1..Len(ptext) : ptext[i] \in Digits
                 THEN DecimalValue(ptext) ELSE 0
    IN  Cardinality(cols) <= 1 =>
            /\ endpoint # <<>> =>
                  endpoint[1] = [Host |-> host, Port |-> port, User |-> user]
            /\ rendered # <<>> =>
                  rendered[1] = host \o <<":">> \o FormatInt(port)

\* C14: within one forward the remote channel is opened only after the
\* jump-host dial has succeeded, bytes are copied in either direction only
\* after the channel open has succeeded, and a forward whose dial or
\* channel open failed has copied no byte.
C14_DialThenOpenThenCopy ==
    /\ [](\A f \in ConnIds :
             /\ fpc[f] \in {"open", "copy", "openfailed", "eof", "copyerr"} =>
                   sessOf[f] # 0
             /\ chanOf[f] # 0 => sessOf[f] # 0 /\ fpc[f] \in {"copy", "eof", "copyerr"}
             /\ fpc[f] \in {"dial", "open", "openfailed", "fatal"} =>
                   /\ lRecv[f] = <<>>
                   /\ Len(inL[f]) = cSent[f]
                   /\ \A ch \in ConnIds : \A i \in 1..Len(rRecv[ch]) :
                         rRecv[ch][i].id # f)
    /\ [][(\A f \in ConnIds :
             /\ (fpc[f] = "open" /\ fpc'[f] # "open") =>
                   sessOf[f] # 0 /\ serverConn[sessOf[f]] = "open"
             /\ (lRecv'[f] # lRecv[f] \/ Len(inL'[f]) < Len(inL[f])) =>
                   /\ fpc[f] = "copy"
                   /\ chanOf[f] # 0
                   /\ remoteConn[chanOf[f]] = "open")]_vars

\* One forward ended on a failed channel open with its client's byte still
\* unread, while another has relayed bytes both ways.
C14_Witness ==
    \E f, g \in ConnIds :
        /\ fpc[f] = "openfailed" /\ cSent[f] > 0 /\ Len(inL[f]) = cSent[f]
        /\ fpc[g] = "copy" /\ lRecv[g] # <<>> /\ rRecv[chanOf[g]] # <<>>

\* C15: a failed jump-host dial in one forward ends the whole process at
\* that step: from then on neither Start nor the watcher nor any other
\* forward takes a step, whatever they were doing, and the failing step
\* itself makes no invocation of Start return.
C15_DialFailureEndsProcess ==
    /\ [](\A f \in ConnIds : fpc[f] = "fatal" => proc = "exited")
    /\ [][(\A f \in ConnIds :
             (fpc[f] = "dial" /\ fpc'[f] = "fatal") =>
                 /\ proc' = "exited"
                 /\ UNCHANGED <<spc, sret, listener, watcher, readyCh>>
                 /\ \A g \in ConnIds \ {f} : FwdState(g)' = FwdState(g))]_vars
    /\ [][((\E f \in ConnIds : fpc[f] = "fatal") => UNCHANGED vars)]_vars

\* The dial of one forward failed while Start sat in its accept loop,
\* without a result, and another forward was relaying: both stopped there.
C15_Witness ==
    \E f, g \in ConnIds :
        /\ fpc[f] = "fatal"
        /\ fpc[g] = "copy" /\ localConn[g] = "open" /\ cp[g] = "run"
        /\ \E s \in StartIds : spc[s] = "accept" /\ sret[s] = "none"

\* C16: in a relaying forward the stop of one copy direction does not by
\* itself stop the other, and the other direction eventually terminates
\* (unless the process ends first), whichever direction stopped first: the
\* spawned remote-to-local copy after the inline local-to-remote copy, and
\* the inline copy, hence the forward, after the spawned copy.
C16_OtherDirectionTerminates ==
    /\ [][(\A f \in ConnIds :
             /\ (cp[f] = "run" /\ cp'[f] = "stop") => fpc'[f] = fpc[f]
             /\ (fpc[f] = "copy" /\ fpc'[f] # "copy") => cp'[f] = cp[f])]_vars
    /\ \A f \in ConnIds :
          /\ (fpc[f] \in {"eof", "copyerr"} /\ cp[f] = "run")
                ~> (cp[f] = "stop" \/ proc # "running")
          /\ (fpc[f] = "copy" /\ cp[f] = "stop")
                ~> (fpc[f] \in {"eof", "copyerr"} \/ proc # "running")

\* C17: the cancellation, the watcher's close of the listener and the
\* return of Start change nothing in a forward that is dialing, opening its
\* channel or copying; after the cancellation such a forward still holds
\* its connections open and can take its next step, whether or not Start
\* has returned.
C17_CancelLeavesForwardsAlone ==
    /\ [][((\/ ctxDone' # ctxDone
            \/ \E s \in StartIds : listener'[s] # listener[s]
            \/ \E s \in StartIds : sret'[s] # sret[s]) =>
               \A g \in ConnIds : InFlight(g) => FwdState(g)' = FwdState(g))]_vars
    /\ [](\A f \in ConnIds :
             (StartCtx \in ctxDone /\ proc = "running") =>
                 /\ fpc[f] = "dial" =>
                       /\ localConn[f] = "open"
                       /\ ENABLED FwdDialOK(f)
                 /\ fpc[f] = "open" =>
                       /\ localConn[f] = "open"
                       /\ serverConn[sessOf[f]] = "open"
                       /\ ENABLED FwdOpenOK(f)
                 /\ fpc[f] = "copy" =>
                       /\ localConn[f] = "open"
                       /\ serverConn[sessOf[f]] = "open"
                       /\ remoteConn[chanOf[f]] = "open"
                       /\ cClosed[f] => ENABLED FwdCopyEOF(f))

\* Start has returned nil after the cancellation while one forward is
\* still relaying and another still dialing.
C17_Witness ==
    /\ StartCtx \in ctxDone
    /\ proc = "running"
    /\ \E s \in StartIds : sret[s] = "nil" /\ listener[s].st = "closed"
    /\ \E f, g \in ConnIds :
          /\ fpc[f] = "copy" /\ localConn[f] = "open" /\ remoteConn[chanOf[f]] = "open"
          /\ cp[f] = "run"
          /\ fpc[g] = "dial" /\ localConn[g] = "open"

\* C18: the accept loop does not wait for a forward.  The step that accepts
\* a connection leaves Start in its accept loop, and while Start is in the
\* loop, the listener is open and the cancellation has not fired, a
\* connection waiting in the backlog can be accepted whatever the forwards
\* in flight are doing.
C18_AcceptNeverWaitsOnForward ==
    /\ [][(\A f \in ConnIds :
             (fpc[f] = "pending" /\ fpc'[f] = "dial") =>
                 /\ spc'[clis[f]] = "accept"
                 /\ \A g \in ConnIds \ {f} : FwdState(g)' = FwdState(g))]_vars
    /\ [](\A s \in StartIds :
             (/\ proc = "running"
              /\ spc[s] = "accept"
              /\ listener[s].st = "open"
              /\ StartCtx \notin ctxDone
              /\ \E f \in ConnIds : fpc[f] = "pending" /\ clis[f] = s) =>
                 ENABLED StartAccept(s))

\* A connection waits in the backlog while every connection accepted
\* before it is blocked in its copy with both ends silent.
C18_Witness ==
    \E s \in StartIds :
        /\ proc = "running" /\ spc[s] = "accept" /\ listener[s].st = "open"
        /\ StartCtx \notin ctxDone
        /\ \E f \in ConnIds : fpc[f] = "pending" /\ clis[f] = s
        /\ \E g \in ConnIds : fpc[g] = "copy" /\ ~cClosed[g] /\ cp[g] = "run"
        /\ \A g \in ConnIds : fpc[g] \in {"pending", "copy"}

\* C19: the listener is closed only by the watcher and only after the
\* cancellation has fired; once the cancellation has fired a bound
\* listener is eventually closed; and after Start returned an accept error
\* without cancellation the listener is open and the watcher still waits.
C19_ListenerClosedByWatcher ==
    /\ [](\A s \in StartIds :
             /\ listener[s].st = "closed" => StartCtx \in ctxDone /\ watcher[s] = "done"
             /\ watcher[s] = "done" => StartCtx \in ctxDone
             /\ (sret[s] = "err" /\ Bound(s) /\ StartCtx \notin ctxDone) =>
                   listener[s].st = "open" /\ watcher[s] = "waiting")
    /\ [][(\A s \in StartIds :
             (listener[s].st = "open" /\ listener'[s].st # "open") =>
                 watcher[s] = "waiting" /\ watcher'[s] = "done")]_vars
    /\ \A s \in StartIds :
          (StartCtx \in ctxDone /\ listener[s].st = "open")
              ~> (listener[s].st = "closed")

\* C19 as it holds: the same, with the listener eventually closed after
\* the cancellation unless the process is ended first.
C19_ListenerClosedByWatcherWhileAlive ==
    /\ [](\A s \in StartIds :
             /\ listener[s].st = "closed" => StartCtx \in ctxDone /\ watcher[s] = "done"
             /\ watcher[s] = "done" => StartCtx \in ctxDone
             /\ (sret[s] = "err" /\ Bound(s) /\ StartCtx \notin ctxDone) =>
                   listener[s].st = "open" /\ watcher[s] = "waiting")
    /\ [][(\A s \in StartIds :
             (listener[s].st = "open" /\ listener'[s].st # "open") =>
                 watcher[s] = "waiting" /\ watcher'[s] = "done")]_vars
    /\ \A s \in StartIds :
          (StartCtx \in ctxDone /\ listener[s].st = "open")
              ~> (listener[s].st = "closed" \/ proc # "running")

\* Start returned an accept error, nobody has cancelled and the process
\* runs: the listener is open, the watcher waits.
C19_Witness ==
    \E s \in StartIds :
        /\ sret[s] = "err" /\ Bound(s)
        /\ StartCtx \notin ctxDone
        /\ proc = "running"
        /\ listener[s].st = "open" /\ watcher[s] = "waiting"

\* C20: StartWatchdog returns only after the cancellation has fired and,
\* once it has fired, eventually returns; it pings the database once for
\* every tick it takes from the ticker, and a failed ping returns it to
\* its select, where the next tick is pinged like any other.
C20_WatchdogRunsUntilCancelled ==
    /\ [](dpc = "returned" => StartCtx \in ctxDone)
    /\ (StartCtx \in ctxDone /\ dpc \in {"select", "ping"}) ~> (dpc = "returned")
    /\ [](pings <= ticks /\ pingFails <= pings)
    /\ [][(/\ pings' # pings => pings' = pings + 1 /\ tickPending /\ ~tickPending'
           /\ (tickPending /\ ~tickPending') => pings' = pings + 1
           /\ pingFails' # pingFails => dpc' = "select" /\ proc' = proc)]_vars
    /\ []((proc = "running" /\ dpc = "select" /\ tickPending) =>
              ENABLED DogSelectTick)

\* C20 as it holds: the same, with the watchdog eventually returning
\* after the cancellation unless the process is ended first.
C20_WatchdogRunsUntilCancelledWhileAlive ==
    /\ [](dpc = "returned" => StartCtx \in ctxDone)
    /\ (StartCtx \in ctxDone /\ dpc \in {"select", "ping"})
          ~> (dpc = "returned" \/ proc # "running")
    /\ [](pings <= ticks /\ pingFails <= pings)
    /\ [][(/\ pings' # pings => pings' = pings + 1 /\ tickPending /\ ~tickPending'
           /\ (tickPending /\ ~tickPending') => pings' = pings + 1
           /\ pingFails' # pingFails => dpc' = "select" /\ proc' = proc)]_vars
    /\ []((proc = "running" /\ dpc = "select" /\ tickPending) =>
              ENABLED DogSelectTick)

\* The watchdog has returned after the cancellation with the process still
\* running, having pinged again after a failed ping.
C20_Witness ==
    /\ dpc = "returned"
    /\ proc = "running"
    /\ pings >= 2
    /\ pingFails = pings

====
